---- MODULE Spec2Model ----
(***************************************************************************)
(* Model of src/app.py: the synthetic-history generator                    *)
(* (generate_historical_data), the polynomial forecaster (forecast_aqi),   *)
(* the forecast rendering (confidence band) and the multi-city comparison  *)
(* loop with its forecast grid.                                            *)
(*                                                                         *)
(* Numbers.  Concentrations of the synthetic history are integers (the     *)
(* floats of the program at unit resolution).  The least-squares fit and   *)
(* everything derived from it is exact rational arithmetic on normalised   *)
(* fractions [num, den].  Dates are day numbers.                           *)
(***************************************************************************)
EXTENDS Integers, Sequences, FiniteSets, TLC

\* ------------------------------------------------------------- bounds
MaxDays == 4          \* largest window length passed to generate_historical_data
MaxHorizon == 2       \* largest days_ahead passed to forecast_aqi
MaxHashSeed == 1      \* hash randomisation keys 0..MaxHashSeed of a process
MaxToday == 1         \* the clock runs over days 0..MaxToday
MaxCities == 4        \* longest cities_list of the comparison tab
MaxIntercept == 45    \* linear histories: intercepts FloorValue..FloorValue+MaxIntercept
MaxSlope == 3         \* linear histories: slopes -MaxSlope..MaxSlope
LinearLen == 10       \* length of the linear history
LinearHorizon == 5    \* days forecast from the linear history

\* ------------------------------------------------- program constants
FloorValue == 10      \* np.maximum(..., 10)
SeasonalAmplitude == 20
NoiseSigma == 15
ColsPerRow == 3       \* cols_per_row
HistoricalDaysMin == 7  \* "Historical Days" slider, min_value
ForecastDaysMin == 3    \* "Forecast Days" slider, min_value
\* hash(city) % 2**32: the seed range.  The width is scaled down (TLC's
\* integers are 32-bit); only "reduced into the seed range by modulo" matters.
SeedModulus == 32
HashSpan == 64        \* range of the (signed) string hash, scaled down likewise

Cities == {"Delhi", "Mumbai"}
Pm25Values == {0, 60}
Sessions == {1, 2}
NoCity == "-"

\* ------------------------------------------------------ small helpers
Maximum(a, b) == IF a >= b THEN a ELSE b
Abs(a) == IF a < 0 THEN -a ELSE a

RECURSIVE GCD(_, _)
GCD(a, b) == IF b = 0 THEN a ELSE GCD(b, a % b)

LCM(a, b) == (a \div GCD(a, b)) * b

RECURSIVE SeqMax(_, _)
\* the largest of f[1..k], k >= 1
SeqMax(f, k) == IF k = 1 THEN f[1] ELSE Maximum(f[k], SeqMax(f, k - 1))

RECURSIVE SumTo(_, _)
\* sum of f[1..k]
SumTo(f, k) == IF k = 0 THEN 0 ELSE f[k] + SumTo(f, k - 1)

\* --------------------------------------------------------- rationals
Rat(n, d) ==
    LET g == GCD(Abs(n), d)
    IN  [num |-> n \div g, den |-> d \div g]

RatInt(n) == [num |-> n, den |-> 1]

RatAdd(a, b) ==
    LET l == LCM(a.den, b.den)
    IN  Rat(a.num * (l \div a.den) + b.num * (l \div b.den), l)

\* (n1 * n2) / d with n1, n2 integers, d > 0, reduced before multiplying
RatProd(n1, n2, d) ==
    LET g1 == GCD(Abs(n1), d)
        d1 == d \div g1
        g2 == GCD(Abs(n2), d1)
    IN  Rat((n1 \div g1) * (n2 \div g2), d1 \div g2)

RatScale(k, m, a) ==
    \* (k / m) * a
    LET g1 == GCD(Abs(a.num), m)
        g2 == GCD(k, a.den)
    IN  Rat((k \div g2) * (a.num \div g1), (m \div g1) * (a.den \div g2))

RatLeq(a, b) ==
    LET l == LCM(a.den, b.den)
    IN  a.num * (l \div a.den) <= b.num * (l \div b.den)

RatMax(a, b) == IF RatLeq(b, a) THEN a ELSE b

\* ------------------------------------------- hashing and the generator
\* The bytes of a city name, as one number.
CityCode(c) == IF c = "Delhi" THEN 3 ELSE IF c = "Mumbai" THEN 5 ELSE 0

\* hash(str): a keyed hash of the string; the key (hashSeed) is drawn when the
\* interpreter starts.  The result is signed.
PyHash(key, c) ==
    ((CityCode(c) * (2 * key + 1) * 37 + key * 11) % HashSpan) - HashSpan \div 2

\* hash(city_data['city']) % 2**32: Python's % is non-negative for a positive modulus.
CitySeed(key, c) == PyHash(key, c) % SeedModulus

\* np.random.seed(s): the state of the global generator after seeding.
SeedState(s) == s

\* One step of the generator and the normal(0, 15) deviate it yields.
RngStep(s) == (5 * s + 3) % SeedModulus
NormalDeviate(s) == ((((7 * s) % 13) - 6) * NoiseSigma) \div 3

RECURSIVE RngAdvance(_, _)
RngAdvance(s, k) == IF k <= 0 THEN s ELSE RngAdvance(RngStep(s), k - 1)

\* np.random.normal(0, 15, days) drawn from state s: the deviates, in point order.
RandomNormal(s, days) == [i \in 1..days |-> NormalDeviate(RngAdvance(s, i - 1))]

\* ----------------------------------------- generate_historical_data
\* HistoryDates with range(days - 1, -1, -1): the window would end today
HistoryDatesToToday(now, days) == [i \in 1..days |-> now - (days - i)]

\* [now - timedelta(days=i) for i in range(days, 0, -1)]
HistoryDates(now, days) == [i \in 1..days |-> now - (days - i + 1)]

\* np.linspace(base * 0.8, base * 1.2, days)[i], i from 0
Trend(base, days, i) ==
    IF days = 1 THEN (8 * base) \div 10
    ELSE (8 * base * (days - 1) + 4 * base * i) \div (10 * (days - 1))

\* sin of an angle in degrees times SeasonalAmplitude (Bhaskara's formula)
ScaledSin(deg) ==
    LET x == deg % 180
        v == (4 * SeasonalAmplitude * x * (180 - x)) \div (40500 - x * (180 - x))
    IN  IF (deg % 360) < 180 THEN v ELSE -v

\* 20 * np.sin(np.linspace(0, 4*np.pi, days))[i], i from 0
Seasonal(days, i) ==
    IF days = 1 THEN 0 ELSE ScaledSin((720 * i) \div (days - 1))

\* Pm25History without the clamp of line 112
Pm25HistoryUnclamped(base, days, noise) ==
    [i \in 1..days |-> Trend(base, days, i - 1) + Seasonal(days, i - 1) + noise[i]]

\* pm25_history = np.maximum(trend + seasonal + noise, 10)
Pm25History(base, days, noise) ==
    [i \in 1..days |->
        Maximum(Trend(base, days, i - 1) + Seasonal(days, i - 1) + noise[i], FloorValue)]

\* The frame generate_historical_data returns when its noise is drawn from
\* generator state s and its dates were computed at time now.  np.linspace
\* raises ValueError for a negative sample count; days = 0 yields an empty frame.
\* (at is not a column: it keeps the value datetime.now() had.)
GenerateFrom(s, now, city_data, days) ==
    IF days < 0
    THEN [status |-> "ValueError", date |-> << >>, pm2_5 |-> << >>,
          city |-> city_data.city, at |-> now]
    ELSE [status |-> "ok",
          date |-> HistoryDates(now, days),
          pm2_5 |-> Pm25History(city_data.pm2_5, days, RandomNormal(s, days)),
          city |-> city_data.city, at |-> now]

\* ------------------------------------------------------- forecast_aqi
\* Centred abscissa of day number x among n points, doubled to stay integral.
CentredX(n, x) == 2 * x - (n - 1)
\* The quadratic of the basis orthogonal to 1 and CentredX on the n points.
OrthoQuad(n, x) == 3 * CentredX(n, x) * CentredX(n, x) - (n * n - 1)

\* model.fit(X_poly, y) then model.predict at day number x: the least-squares
\* polynomial of degree 2 through y (y[i] is the value of day number i - 1).
\* With one or two points the system is underdetermined and the solver returns
\* the minimum-norm solution on the centred features.
Predict(y, x) ==
    LET n == Len(y)
    IN  IF n = 1 THEN RatInt(y[1])
        ELSE IF n = 2 THEN RatInt(y[1] + (y[2] - y[1]) * ((x * (x + 1)) \div 2))
        ELSE
          LET s0 == n
              s1 == SumTo([i \in 1..n |-> CentredX(n, i - 1) * CentredX(n, i - 1)], n)
              s2 == SumTo([i \in 1..n |-> OrthoQuad(n, i - 1) * OrthoQuad(n, i - 1)], n)
              c0 == SumTo([i \in 1..n |-> y[i]], n)
              c1 == SumTo([i \in 1..n |-> y[i] * CentredX(n, i - 1)], n)
              c2 == SumTo([i \in 1..n |-> y[i] * OrthoQuad(n, i - 1)], n)
          IN  RatAdd(RatAdd(Rat(c0, s0), RatProd(c1, CentredX(n, x), s1)),
                     RatProd(c2, OrthoQuad(n, x), s2))

\* np.maximum(forecast, 10)
FloorForecast(v) == RatMax(v, RatInt(FloorValue))

\* ForecastAqi with future_days starting one day late (range(1, days_ahead + 1))
ForecastAqiShifted(h, days_ahead) ==
    LET n == Len(h.pm2_5)
    IN  IF n = 0 \/ days_ahead <= 0
        THEN [status |-> "ValueError", date |-> << >>, pm2_5_forecast |-> << >>,
              city |-> h.city]
        ELSE [status |-> "ok",
              date |-> [i \in 1..days_ahead |-> SeqMax(h.date, n) + i],
              pm2_5_forecast |-> [i \in 1..days_ahead |->
                                    FloorForecast(Predict(h.pm2_5, n + i))],
              city |-> h.city]

\* forecast_aqi(historical_df, days_ahead).  An empty history is rejected by
\* fit_transform (ValueError: 0 samples); an empty future_days array is
\* one-dimensional and rejected by transform (ValueError).
ForecastAqi(h, days_ahead) ==
    LET n == Len(h.pm2_5)
    IN  IF n = 0 \/ days_ahead <= 0
        THEN [status |-> "ValueError", date |-> << >>, pm2_5_forecast |-> << >>,
              city |-> h.city]
        ELSE [status |-> "ok",
              date |-> [i \in 1..days_ahead |-> SeqMax(h.date, n) + i],
              pm2_5_forecast |-> [i \in 1..days_ahead |->
                                    FloorForecast(Predict(h.pm2_5, n + i - 1))],
              city |-> h.city]

\* ConfidenceBand with the two factors exchanged
ConfidenceBandSwapped(values) ==
    [i \in 1..Len(values) |->
        [lower |-> RatScale(23, 20, values[i]), upper |-> RatScale(17, 20, values[i])]]

\* forecast_values * 0.85 and forecast_values * 1.15 (fill_between)
ConfidenceBand(values) ==
    [i \in 1..Len(values) |->
        [lower |-> RatScale(17, 20, values[i]), upper |-> RatScale(23, 20, values[i])]]

\* ----------------------------------------------------------- state
VARIABLES
    hashSeed,        \* the interpreter's hash randomisation key (fixed per process)
    rng,             \* state of numpy's global generator (np.random), shared by all sessions
    today,           \* datetime.now(), in days
    pc,              \* per session: where its script run stands
    args,            \* per session: the arguments of the call under way
    hist,            \* per session: hist_df, the frame generate_historical_data returned
    fc,              \* per session: forecast_df, the frame forecast_aqi returned
    band,            \* per session: the band handed to fill_between
    golden,          \* the first non-empty series ever generated, kept across restarts
    cities_list,     \* comparison tab: the cities entered
    idx,             \* comparison tab: loop index
    outcomes,        \* comparison tab: what the services answered for each city so far
    messages,        \* comparison tab: the st.warning / st.error messages shown
    all_data,        \* comparison tab: readings of the cities fetched
    phase,           \* comparison tab: where the run stands
    historical_days, \* sidebar slider
    forecast_days,   \* sidebar slider
    plots,           \* forecast grid: what was drawn, per city
    off              \* forecast grid: panels switched off

sessionVars == <<pc, args, hist, fc, band>>
batchVars == <<cities_list, idx, outcomes, messages, all_data, phase,
               historical_days, forecast_days, plots, off>>
vars == <<hashSeed, rng, today, pc, args, hist, fc, band, golden,
          cities_list, idx, outcomes, messages, all_data, phase,
          historical_days, forecast_days, plots, off>>

HashSeeds == 0..MaxHashSeed
RngStates == 0..(SeedModulus - 1)
WindowLengths == -1..MaxDays
Horizons == -1..MaxHorizon

NoHistory == [status |-> "none", date |-> << >>, pm2_5 |-> << >>, city |-> NoCity, at |-> 0]
NoForecast == [status |-> "none", date |-> << >>, pm2_5_forecast |-> << >>, city |-> NoCity]
NoArgs == [city_data |-> [city |-> NoCity, pm2_5 |-> 0], days |-> 0, days_ahead |-> 0]
NoSeries == [city_data |-> [city |-> NoCity, pm2_5 |-> 0], days |-> 0, pm2_5 |-> << >>]

SessionsIdle ==
    /\ pc = [t \in Sessions |-> "idle"]
    /\ args = [t \in Sessions |-> NoArgs]
    /\ hist = [t \in Sessions |-> NoHistory]
    /\ fc = [t \in Sessions |-> NoForecast]
    /\ band = [t \in Sessions |-> << >>]

BatchIdle ==
    /\ cities_list = << >>
    /\ idx = 0
    /\ outcomes = << >>
    /\ messages = << >>
    /\ all_data = << >>
    /\ phase = "idle"
    /\ historical_days = 0
    /\ forecast_days = 0
    /\ plots = << >>
    /\ off = {}

\* A fresh interpreter: the hash key and the generator's state come from the
\* operating system's entropy.
Init ==
    /\ hashSeed \in HashSeeds
    /\ rng \in RngStates
    /\ today = 0
    /\ golden = NoSeries
    /\ SessionsIdle
    /\ BatchIdle

\* ------------------------------------------------ one call sequence
\* A caller picks the reading and the lengths.
Call(t, horizons) ==
    /\ pc[t] = "idle"
    /\ \E c \in Cities, v \in Pm25Values, d \in WindowLengths, h \in horizons :
          args' = [args EXCEPT ![t] = [city_data |-> [city |-> c, pm2_5 |-> v],
                                        days |-> d, days_ahead |-> h]]
    /\ pc' = [pc EXCEPT ![t] = "called"]
    /\ UNCHANGED <<hashSeed, rng, today, hist, fc, band, golden, batchVars>>

\* generate_historical_data, up to the seeding and the dates
GenerateSeed(t) ==
    /\ pc[t] = "called"
    /\ rng' = SeedState(CitySeed(hashSeed, args[t].city_data.city))
    /\ hist' = [hist EXCEPT ![t] =
                  [status |-> "running", date |-> HistoryDates(today, args[t].days),
                   pm2_5 |-> << >>, city |-> args[t].city_data.city, at |-> today]]
    /\ pc' = [pc EXCEPT ![t] = "seeded"]
    /\ UNCHANGED <<hashSeed, today, args, fc, band, golden, batchVars>>

\* generate_historical_data, from the trend to the returned frame; the noise is
\* drawn from whatever state the global generator is in by now
GenerateRest(t) ==
    /\ pc[t] = "seeded"
    /\ LET d == args[t].days
           r == GenerateFrom(rng, hist[t].at, args[t].city_data, d)
       IN  /\ hist' = [hist EXCEPT ![t] = r]
           /\ rng' = IF d < 0 THEN rng ELSE RngAdvance(rng, d)
           /\ pc' = [pc EXCEPT ![t] = IF r.status = "ok" THEN "generated" ELSE "raised"]
    /\ UNCHANGED <<hashSeed, today, args, fc, band, batchVars>>

GenerateDraw(t) == GenerateRest(t) /\ UNCHANGED golden

\* the same step, watched by an observer who keeps the first series produced
GenerateDrawObserved(t) ==
    /\ GenerateRest(t)
    /\ golden' = IF golden = NoSeries /\ hist'[t].status = "ok" /\ args[t].days >= 1
                 THEN [city_data |-> args[t].city_data, days |-> args[t].days,
                       pm2_5 |-> hist'[t].pm2_5]
                 ELSE golden

\* forecast_df = forecast_aqi(hist_df, days_ahead)
Forecast(t) ==
    /\ pc[t] = "generated"
    /\ LET r == ForecastAqi(hist[t], args[t].days_ahead)
       IN  /\ fc' = [fc EXCEPT ![t] = r]
           /\ pc' = [pc EXCEPT ![t] = IF r.status = "ok" THEN "forecast" ELSE "raised"]
    /\ UNCHANGED <<hashSeed, rng, today, args, hist, band, golden, batchVars>>

\* the plot of the forecast with its band
Render(t) ==
    /\ pc[t] = "forecast"
    /\ band' = [band EXCEPT ![t] = ConfidenceBand(fc[t].pm2_5_forecast)]
    /\ pc' = [pc EXCEPT ![t] = "rendered"]
    /\ UNCHANGED <<hashSeed, rng, today, args, hist, fc, golden, batchVars>>

\* the run is over (rendered, or ended by an exception): the frames are dropped
Finish(t) ==
    /\ pc[t] \in {"rendered", "raised"}
    /\ pc' = [pc EXCEPT ![t] = "idle"]
    /\ args' = [args EXCEPT ![t] = NoArgs]
    /\ hist' = [hist EXCEPT ![t] = NoHistory]
    /\ fc' = [fc EXCEPT ![t] = NoForecast]
    /\ band' = [band EXCEPT ![t] = << >>]
    /\ UNCHANGED <<hashSeed, rng, today, golden, batchVars>>

\* midnight passes
Tick ==
    /\ today < MaxToday
    /\ today' = today + 1
    /\ UNCHANGED <<hashSeed, rng, sessionVars, golden, batchVars>>

\* the server process is restarted: new hash key, new generator, no sessions
Restart ==
    /\ hashSeed' \in HashSeeds
    /\ rng' \in RngStates
    /\ pc' = [t \in Sessions |-> "idle"]
    /\ args' = [t \in Sessions |-> NoArgs]
    /\ hist' = [t \in Sessions |-> NoHistory]
    /\ fc' = [t \in Sessions |-> NoForecast]
    /\ band' = [t \in Sessions |-> << >>]
    /\ UNCHANGED <<today, golden, batchVars>>

\* the session whose run the sequential specifications follow
MainSession == CHOOSE t \in Sessions : \A u \in Sessions : t <= u

Next ==
    \/ Call(MainSession, Horizons)
    \/ GenerateSeed(MainSession)
    \/ GenerateDraw(MainSession)
    \/ Forecast(MainSession)
    \/ Render(MainSession)
    \/ Finish(MainSession)
    \/ Tick

Spec == Init /\ [][Next]_vars

\* ------------------------------------- the synthesizer across restarts
NextRestart ==
    \/ Call(MainSession, {1})
    \/ GenerateSeed(MainSession)
    \/ GenerateDrawObserved(MainSession)
    \/ Finish(MainSession)
    \/ Restart

SpecRestart == Init /\ [][NextRestart]_vars

\* ---------------------------------- two sessions generating at once
\* Two script runs of one server process, each about to call
\* generate_historical_data for a city of its own.
InitConc ==
    /\ hashSeed \in HashSeeds
    /\ rng \in RngStates
    /\ today = 0
    /\ golden = NoSeries
    /\ pc = [t \in Sessions |-> "called"]
    /\ \E c1, c2 \in Cities, v1, v2 \in Pm25Values, d1, d2 \in 1..MaxDays :
          /\ c1 /= c2
          /\ args = (1 :> [city_data |-> [city |-> c1, pm2_5 |-> v1], days |-> d1, days_ahead |-> 1]
                     @@ 2 :> [city_data |-> [city |-> c2, pm2_5 |-> v2], days |-> d2, days_ahead |-> 1])
    /\ hist = [t \in Sessions |-> NoHistory]
    /\ fc = [t \in Sessions |-> NoForecast]
    /\ band = [t \in Sessions |-> << >>]
    /\ BatchIdle

NextConc == \E t \in Sessions : GenerateSeed(t) \/ GenerateDraw(t)

SpecConc == InitConc /\ [][NextConc]_vars

\* ------------------------------------------- the linear test history
\* A history of LinearLen points on the line a + b * i, dated up to yesterday,
\* handed to forecast_aqi with days_ahead = LinearHorizon.
LinearHistory(a, b) ==
    [status |-> "ok",
     date |-> HistoryDates(0, LinearLen),
     pm2_5 |-> [i \in 1..LinearLen |-> a + b * (i - 1)],
     city |-> "Delhi", at |-> 0]

InitLinear ==
    /\ hashSeed = 0
    /\ rng = 0
    /\ today = 0
    /\ golden = NoSeries
    /\ \E a \in FloorValue..(FloorValue + MaxIntercept), b \in (-MaxSlope)..MaxSlope :
          /\ hist = [t \in Sessions |-> IF t = MainSession THEN LinearHistory(a, b) ELSE NoHistory]
          /\ args = [t \in Sessions |->
                       IF t = MainSession
                       THEN [city_data |-> [city |-> "Delhi", pm2_5 |-> a],
                             days |-> LinearLen, days_ahead |-> LinearHorizon]
                       ELSE NoArgs]
    /\ pc = [t \in Sessions |-> IF t = MainSession THEN "generated" ELSE "idle"]
    /\ fc = [t \in Sessions |-> NoForecast]
    /\ band = [t \in Sessions |-> << >>]
    /\ BatchIdle

NextLinear == Forecast(MainSession) \/ Render(MainSession)

SpecLinear == InitLinear /\ [][NextLinear]_vars

\* ---------------------------------------------- the comparison tab
\* What indexing and plotting see of the objects plt.subplots returns.
Axes(k) == [kind |-> "Axes", row |-> k \div ColsPerRow, panel |-> k]
AxesRow(r) == [kind |-> "ndarray1", row |-> r, panel |-> -1]
AxesGrid == [kind |-> "ndarray2", row |-> -1, panel |-> -1]
ListOf(x) == [kind |-> "list", row |-> x.row, panel |-> -1]
Raised(e) == [kind |-> e, row |-> -1, panel |-> -1]

\* num_rows = (num_cities + cols_per_row - 1) // cols_per_row
NumRows(num_cities) == (num_cities + ColsPerRow - 1) \div ColsPerRow

\* fig3, axes3 = plt.subplots(num_rows, cols_per_row): one row is squeezed to a
\* one-dimensional array; then "if num_rows == 1: axes3 = [axes3]"
Axes3(num_rows) == IF num_rows = 1 THEN ListOf(AxesRow(0)) ELSE AxesGrid

\* obj[i]
Subscript(obj, i, num_rows) ==
    IF obj.kind = "list" THEN (IF i = 0 THEN AxesRow(obj.row) ELSE Raised("IndexError"))
    ELSE IF obj.kind = "ndarray1"
         THEN (IF i < ColsPerRow THEN Axes(obj.row * ColsPerRow + i) ELSE Raised("IndexError"))
    ELSE IF obj.kind = "ndarray2"
         THEN (IF i < num_rows THEN AxesRow(i) ELSE Raised("IndexError"))
    ELSE Raised("TypeError")

\* obj[row, col]
Subscript2(obj, row, col, num_rows) ==
    IF obj.kind = "ndarray2"
    THEN (IF row < num_rows /\ col < ColsPerRow THEN Axes(row * ColsPerRow + col)
          ELSE Raised("IndexError"))
    ELSE Raised("TypeError")

\* the ax the forecast loop picks for city number i (from 0)
PanelFor(i, num_cities) ==
    LET num_rows == NumRows(num_cities)
        axes3 == Axes3(num_rows)
        row == i \div ColsPerRow
        col == i % ColsPerRow
    IN  IF num_rows = 1
        THEN (IF num_cities > 1 THEN Subscript(axes3, col, num_rows) ELSE axes3)
        ELSE Subscript2(axes3, row, col, num_rows)

\* the object whose axis('off') the last loop calls for panel number i, or
\* "skip" when it calls none
PanelOff(i, num_cities) ==
    LET num_rows == NumRows(num_cities)
        axes3 == Axes3(num_rows)
        row == i \div ColsPerRow
        col == i % ColsPerRow
    IN  IF num_rows = 1
        THEN (IF num_cities > 1 THEN Subscript(axes3, col, num_rows) ELSE Raised("skip"))
        ELSE Subscript2(axes3, row, col, num_rows)

FetchOutcomes ==
    {[kind |-> k, pm2_5 |-> 0] : k \in {"notfound", "georaised", "badstatus", "fetchraised"}}
    \cup {[kind |-> "ok", pm2_5 |-> v] : v \in Pm25Values}

CityLists == UNION {[1..n -> Cities] : n \in 1..MaxCities}

\* "Compare Cities" pressed with a non-empty list, the sliders at their minimum
InitBatch ==
    /\ hashSeed = 0
    /\ rng = 0
    /\ today = 0
    /\ golden = NoSeries
    /\ SessionsIdle
    /\ cities_list \in CityLists
    /\ idx = 0
    /\ outcomes = << >>
    /\ messages = << >>
    /\ all_data = << >>
    /\ phase = "fetching"
    /\ historical_days = HistoricalDaysMin
    /\ forecast_days = ForecastDaysMin
    /\ plots = << >>
    /\ off = {}

\* one pass of the loop over cities_list: get_coordinates, fetch_aqi_data, append
FetchCity ==
    /\ phase = "fetching"
    /\ idx < Len(cities_list)
    /\ \E o \in FetchOutcomes :
          LET city == cities_list[idx + 1]
          IN  /\ outcomes' = Append(outcomes, o)
              /\ messages' =
                    IF o.kind = "georaised"
                    THEN Append(messages, [call |-> "error", city |-> NoCity])
                    ELSE IF o.kind = "badstatus"
                    THEN Append(messages, [call |-> "warning", city |-> city])
                    ELSE IF o.kind = "fetchraised"
                    THEN Append(messages, [call |-> "error", city |-> city])
                    ELSE messages
              /\ all_data' = IF o.kind = "ok"
                             THEN Append(all_data, [city |-> city, pm2_5 |-> o.pm2_5])
                             ELSE all_data
    /\ idx' = idx + 1
    /\ UNCHANGED <<hashSeed, rng, today, sessionVars, golden, cities_list, phase,
                   historical_days, forecast_days, plots, off>>

\* the loop is over: rankings and comparison charts, then the forecast grid
EndFetch ==
    /\ phase = "fetching"
    /\ idx = Len(cities_list)
    /\ phase' = IF Len(all_data) > 0 THEN "plotting" ELSE "done"
    /\ idx' = 0
    /\ UNCHANGED <<hashSeed, rng, today, sessionVars, golden, cities_list, outcomes,
                   messages, all_data, historical_days, forecast_days, plots, off>>

\* one pass of the forecast loop: pick the panel, generate, forecast, plot.
\* ax.plot on anything but an Axes raises AttributeError and ends the run.
PlotCity ==
    /\ phase = "plotting"
    /\ idx < Len(all_data)
    /\ LET city_data == all_data[idx + 1]
           ax == PanelFor(idx, Len(all_data))
           hist_df == GenerateFrom(SeedState(CitySeed(hashSeed, city_data.city)), today,
                                   city_data, historical_days)
           forecast_df == ForecastAqi(hist_df, forecast_days)
       IN  /\ rng' = RngAdvance(SeedState(CitySeed(hashSeed, city_data.city)), historical_days)
           /\ IF ax.kind = "Axes"
              THEN /\ plots' = Append(plots, [city |-> city_data.city, panel |-> ax.panel,
                                              historical |-> Len(hist_df.pm2_5),
                                              forecast |-> Len(forecast_df.pm2_5_forecast),
                                              band |-> Len(ConfidenceBand(forecast_df.pm2_5_forecast))])
                   /\ phase' = phase
              ELSE /\ plots' = plots
                   /\ phase' = "crashed"
    /\ idx' = IF PanelFor(idx, Len(all_data)).kind = "Axes" THEN idx + 1 ELSE idx
    /\ UNCHANGED <<hashSeed, today, sessionVars, golden, cities_list, outcomes,
                   messages, all_data, historical_days, forecast_days, off>>

\* the loop switching the unused panels off, then the figure is shown
SwitchOff ==
    /\ phase = "plotting"
    /\ idx = Len(all_data)
    /\ LET n == Len(all_data)
           unused == n..(NumRows(n) * ColsPerRow - 1)
           targets == {PanelOff(i, n) : i \in unused}
       IN  IF \A x \in targets : x.kind \in {"Axes", "skip"}
           THEN /\ off' = {x.panel : x \in {y \in targets : y.kind = "Axes"}}
                /\ phase' = "done"
           ELSE /\ off' = off
                /\ phase' = "crashed"
    /\ UNCHANGED <<hashSeed, rng, today, sessionVars, golden, cities_list, idx, outcomes,
                   messages, all_data, historical_days, forecast_days, plots>>

NextBatch == FetchCity \/ EndFetch \/ PlotCity \/ SwitchOff

SpecBatch == InitBatch /\ [][NextBatch]_vars

\* ------------------------------------------------------------ claims
Generated(t) == hist[t].status \notin {"none", "running"}
Forecasted(t) == fc[t].status /= "none"

\* C1: every value of a series returned by generate_historical_data and every
\* predicted value returned by forecast_aqi is at least 10, whatever the city,
\* the current PM2.5 value (0 included) and the lengths.
C1_FloorInvariant ==
    \A t \in Sessions :
        /\ hist[t].status = "ok" =>
              \A i \in 1..Len(hist[t].pm2_5) : hist[t].pm2_5[i] >= 10
        /\ fc[t].status = "ok" =>
              \A i \in 1..Len(fc[t].pm2_5_forecast) :
                  RatLeq(RatInt(10), fc[t].pm2_5_forecast[i])

\* a forecast from a reading of 0 in which the clamp acted on the history and on
\* a predicted value
C1_Witness ==
    \E t \in Sessions :
        /\ fc[t].status = "ok"
        /\ args[t].city_data.pm2_5 = 0
        /\ \E i \in 1..Len(hist[t].pm2_5) : hist[t].pm2_5[i] = 10
        /\ \E i \in 1..Len(fc[t].pm2_5_forecast) :
              Predict(hist[t].pm2_5, Len(hist[t].pm2_5) + i - 1).num < 10
        /\ \E i \in 1..Len(fc[t].pm2_5_forecast) : fc[t].pm2_5_forecast[i] = RatInt(10)

\* C3: forecast_aqi on a history of fewer than 3 points fails with
\* InsufficientDataError and returns no forecast series.
C3_DegenerateHistoryRejected ==
    \A t \in Sessions :
        (Forecasted(t) /\ Len(hist[t].pm2_5) < 3) =>
            /\ fc[t].status = "InsufficientDataError"
            /\ fc[t].pm2_5_forecast = << >>

\* C4: forecast_aqi with days_ahead < 1 and generate_historical_data with a
\* non-positive window fail with InvalidParameterError; neither returns an
\* empty or default series.
C4_InvalidParameterRejected ==
    \A t \in Sessions :
        /\ (Forecasted(t) /\ args[t].days_ahead < 1) =>
              fc[t].status = "InvalidParameterError"
        /\ (Generated(t) /\ args[t].days <= 0) =>
              hist[t].status = "InvalidParameterError"

\* C5: for a window D >= 1 the history has exactly D points, dates rising by one
\* day, oldest first, the last being the day before the generation; for a
\* horizon H >= 1 the forecast has exactly H points, dates rising by one day, the
\* first being the day after the last historical date.
Consecutive(d) == \A i \in 1..(Len(d) - 1) : d[i + 1] = d[i] + 1

AloneSeries(t) ==
    GenerateFrom(SeedState(CitySeed(hashSeed, args[t].city_data.city)),
                 hist[t].at, args[t].city_data, args[t].days).pm2_5

\* C2: for a fixed city, current value and window length generate_historical_data
\* yields the same series on every call, across restarts of the process too.
C2_SameCitySameSeries ==
    \A t \in Sessions :
        (/\ hist[t].status = "ok"
         /\ args[t].city_data = golden.city_data
         /\ args[t].days = golden.days) => hist[t].pm2_5 = golden.pm2_5

\* C7: under any interleaving of two concurrent calls for different cities each
\* call returns the series it returns when run alone.
C7_ConcurrentIndependence ==
    \A t \in Sessions : hist[t].status = "ok" => hist[t].pm2_5 = AloneSeries(t)

\* C8: a history of 10 points on a line a + b * i, forecast 5 days ahead, is
\* continued on the same line at day numbers 10..14, for every line whose
\* continuation stays at or above 10.
LineIntercept(t) == hist[t].pm2_5[1]
LineSlope(t) == hist[t].pm2_5[2] - hist[t].pm2_5[1]
LineAt(t, x) == LineIntercept(t) + LineSlope(t) * x
ContinuationAboveFloor(t) ==
    \A x \in LinearLen..(LinearLen + LinearHorizon - 1) : LineAt(t, x) >= 10

C8_LinearContinuation ==
    \A t \in Sessions :
        (Forecasted(t) /\ ContinuationAboveFloor(t)) =>
            /\ fc[t].status = "ok"
            /\ Len(fc[t].pm2_5_forecast) = LinearHorizon
            /\ \A i \in 1..LinearHorizon :
                  fc[t].pm2_5_forecast[i] = RatInt(LineAt(t, LinearLen + i - 1))

\* the forecast of a falling line that ends just at the floor
C8_Witness ==
    \E t \in Sessions :
        /\ fc[t].status = "ok"
        /\ Len(hist[t].pm2_5) = LinearLen
        /\ LineSlope(t) < 0
        /\ ContinuationAboveFloor(t)
        /\ LineAt(t, LinearLen + LinearHorizon - 1) = 10

\* C9: after the loop over cities_list every city that failed (no coordinates,
\* a status other than 200, an exception) has a message naming it, the loop
\* went through all the cities, and all_data holds exactly the readings of
\* the cities that succeeded, in input order.
RECURSIVE Succeeded(_, _, _)
Succeeded(cities, outs, k) ==
    IF k = 0 THEN << >>
    ELSE IF outs[k].kind = "ok"
         THEN Append(Succeeded(cities, outs, k - 1), [city |-> cities[k], pm2_5 |-> outs[k].pm2_5])
         ELSE Succeeded(cities, outs, k - 1)

C9_BatchFailureIsolation ==
    phase \in {"plotting", "done", "crashed"} =>
        /\ Len(outcomes) = Len(cities_list)
        /\ all_data = Succeeded(cities_list, outcomes, Len(cities_list))
        /\ \A i \in 1..Len(cities_list) :
              outcomes[i].kind /= "ok" =>
                  \E m \in 1..Len(messages) : messages[m].city = cities_list[i]

\* C10: for n >= 1 fetched cities the forecast loop draws city idx on the
\* panel at row idx // 3, column idx % 3, distinct cities on distinct panels,
\* every city with its history and forecast, and exactly the panels
\* n .. rows*3-1 are switched off.
C10_PanelAssignment ==
    (phase \in {"done", "crashed"} /\ Len(all_data) >= 1) =>
        /\ phase = "done"
        /\ Len(plots) = Len(all_data)
        /\ \A i \in 1..Len(plots) :
              /\ plots[i].city = all_data[i].city
              /\ plots[i].panel = ((i - 1) \div 3) * 3 + ((i - 1) % 3)
              /\ plots[i].historical = historical_days
              /\ plots[i].forecast = forecast_days
        /\ off = Len(all_data)..(NumRows(Len(all_data)) * 3 - 1)

====
